---- MODULE Spec2Model ----
(***************************************************************************)
(* Model of cortex/parsers/parsers.py: the parser registry (PARSERS and    *)
(* the @parser decorator), the four parsers (pose, color_image,            *)
(* depth_image, feelings), run_parser, run_parser_wrapper and the          *)
(* RabbitMQ service loop run_parser_service with its parser_callback.      *)
(***************************************************************************)
EXTENDS Integers, Sequences, FiniteSets, TLC

(* ---------------------------------------------------------------------- *)
(* Bounds of the model                                                     *)
(* ---------------------------------------------------------------------- *)
MaxMsgs == 2        \* messages the producer sends to the worker's queue
MaxQueue == 2       \* messages waiting in the queue at one time
MaxRegs == 1        \* calls of the decorator after the module's own four

(* ---------------------------------------------------------------------- *)
(* Module constants                                                        *)
(* ---------------------------------------------------------------------- *)
CHANNEL_NAME == "snapshot_message"
EXCHANGE_NAME == "snapshot"
EXCHANGE_PUBLISH == "processed_data"
PROCESSED_DIRECTORY == "files/processed"

(* ---------------------------------------------------------------------- *)
(* JSON values, message bodies and json.loads / json.dumps                 *)
(* ---------------------------------------------------------------------- *)
\* A JSON scalar: a string or a number, tagged with its type.
Str(s) == <<"str", s>>
Num(n) == <<"num", n>>
IsStr(v) == v[1] = "str"
StrOf(v) == v[2]
NumOf(v) == v[2]

\* A message body (bytes).  "bad": bytes that are not JSON; "arr": a JSON
\* document that is not an object (a list); "obj": a JSON object, written
\* as the sequence of its key/value pairs in textual order.
BadBody == [kind |-> "bad", pairs |-> << >>]
ArrBody == [kind |-> "arr", pairs |-> << >>]
ObjBody(pairs) == [kind |-> "obj", pairs |-> pairs]

\* The dict json.loads builds from the pairs of an object: a later pair
\* with the same key replaces an earlier one.
Keys(pairs) == {pairs[i][1] : i \in 1..Len(pairs)}
LastIndex(pairs, k) == CHOOSE i \in 1..Len(pairs) :
                          /\ pairs[i][1] = k
                          /\ \A j \in (i+1)..Len(pairs) : pairs[j][1] # k
DictOf(pairs) == [k \in Keys(pairs) |-> pairs[LastIndex(pairs, k)][2]]

\* json.loads: exc is the exception raised ("none" when it returns);
\* isdict tells a decoded object from any other decoded document.
json_loads(body) ==
    IF body.kind = "bad"
    THEN [exc |-> "ValueError", isdict |-> FALSE, d |-> << >>]
    ELSE IF body.kind = "arr"
    THEN [exc |-> "none", isdict |-> FALSE, d |-> << >>]
    ELSE [exc |-> "none", isdict |-> TRUE, d |-> DictOf(body.pairs)]

\* json.dumps of a dict literal: the pairs in insertion order.
json_dumps(pairs) == ObjBody(pairs)

\* str.format of a JSON scalar.
Fmt(v) == IF IsStr(v) THEN StrOf(v) ELSE ToString(NumOf(v))

(* ---------------------------------------------------------------------- *)
(* The file system the image parsers read from and write to                *)
(* ---------------------------------------------------------------------- *)
\* Content of an input data file.  "missing": no such file; "raw": len
\* bytes of binary pixel data; "json": the text of a JSON object whose
\* "data" member is the list data; "nodata": the text of a JSON object
\* without a "data" member; "text": text that is not JSON.
NoFile == [kind |-> "missing", len |-> 0, data |-> << >>]
RawFile(n) == [kind |-> "raw", len |-> n, data |-> << >>]
JsonFile(arr) == [kind |-> "json", len |-> 2 * Len(arr) + 10, data |-> arr]
NoDataFile == [kind |-> "nodata", len |-> 2, data |-> << >>]
TextFile == [kind |-> "text", len |-> 4, data |-> << >>]

\* The data files present when the worker runs (written by the upstream
\* server); every other path is absent.
Paths == {"c12.bin", "c9.bin", "d6.json", "d5.json", "d4.json", "d1.json",
          "bad.json", "nodata.json", "gone"}
FileSystem ==
    [p \in Paths |->
        CASE p = "c12.bin" -> RawFile(12)
          [] p = "c9.bin" -> RawFile(9)
          [] p = "d6.json" -> JsonFile(<<1, 2, 3, 4, 5, 6>>)
          [] p = "d5.json" -> JsonFile(<<1, 2, 3, 4, 5>>)
          [] p = "d4.json" -> JsonFile(<<1, 2, 3, 4>>)
          [] p = "d1.json" -> JsonFile(<<1>>)
          [] p = "bad.json" -> TextFile
          [] p = "nodata.json" -> NoDataFile
          [] OTHER -> NoFile]
ReadFile(path) == IF path \in Paths THEN FileSystem[path] ELSE NoFile

\* What the environment does to the writes of one parser call: nothing,
\* fail the mkdir of PROCESSED_DIRECTORY, or fail the save of the image.
WriteEnv == {"ok", "mkdir_fail", "save_fail"}

(* ---------------------------------------------------------------------- *)
(* The parsers.  Each returns what one call does: exc is the exception     *)
(* that leaves the function ("none" when it returns), ret the returned     *)
(* JSON string or None, wrote the artifact files it saved, mkdir whether   *)
(* it created PROCESSED_DIRECTORY, rows the list new_array it built        *)
(* (<<new_array>>, or << >> when it built none).                           *)
(* ---------------------------------------------------------------------- *)
None == [kind |-> "None", pairs |-> << >>]
Raise(e) ==
    [exc |-> e, ret |-> None, wrote |-> {}, mkdir |-> FALSE, rows |-> << >>]
Return(r) ==
    [exc |-> "none", ret |-> r, wrote |-> {}, mkdir |-> FALSE,
     rows |-> << >>]

\* The exception, if any, of json.loads(data) followed by the
\* logging.debug line that reads snapshot_json["user_id"] and
\* snapshot_json["datetime"] before the try block.
Prologue(j) ==
    IF j.exc # "none" THEN j.exc
    ELSE IF ~j.isdict THEN "TypeError"
    ELSE IF "user_id" \notin DOMAIN j.d THEN "KeyError"
    ELSE IF "datetime" \notin DOMAIN j.d THEN "KeyError"
    ELSE "none"

PoseFields == <<"pose_rotation_x", "pose_rotation_y", "pose_rotation_z",
                "pose_rotation_w", "pose_translation_x",
                "pose_translation_y", "pose_translation_z">>

\* The result keys with rotation_z and rotation_w taken from each other.
PoseOutSwapped == <<"rotation_x", "rotation_y", "rotation_w", "rotation_z",
                    "translation_x", "translation_y", "translation_z">>

PoseOut == <<"rotation_x", "rotation_y", "rotation_z", "rotation_w",
             "translation_x", "translation_y", "translation_z">>
FeelingsFields == <<"happiness", "thirst", "hunger", "exhaustion">>

\* A dict literal that fills user_id and datetime from each other's field.
RemapKeySwapped(d, in, out) ==
    <<  <<"user_id", d["datetime"]>>, <<"datetime", d["user_id"]>>  >>
    \o [i \in 1..Len(in) |-> <<out[i], d[in[i]]>>]

\* The dict literal {"user_id": .., "datetime": .., out[i]: d[in[i]], ..}.
Remap(d, in, out) ==
    <<  <<"user_id", d["user_id"]>>, <<"datetime", d["datetime"]>>  >>
    \o [i \in 1..Len(in) |-> <<out[i], d[in[i]]>>]

pose(data, env) ==
    LET j == json_loads(data)
    IN  IF Prologue(j) # "none" THEN Raise(Prologue(j))
        ELSE IF \E i \in 1..Len(PoseFields) : PoseFields[i] \notin DOMAIN j.d
        THEN Return(None)                          \* except KeyError
        ELSE Return(json_dumps(Remap(j.d, PoseFields, PoseOut)))

feelings(data, env) ==
    LET j == json_loads(data)
    IN  IF Prologue(j) # "none" THEN Raise(Prologue(j))
        ELSE IF \E i \in 1..Len(FeelingsFields) :
                    FeelingsFields[i] \notin DOMAIN j.d
        THEN Return(None)                          \* except KeyError
        ELSE Return(json_dumps(Remap(j.d, FeelingsFields, FeelingsFields)))

\* "{}/{}_{}_<modality>.jpg".format(PROCESSED_DIRECTORY, user_id, datetime)
FinalPath(d, modality) ==
    PROCESSED_DIRECTORY \o "/" \o Fmt(d["user_id"]) \o "_"
        \o Fmt(d["datetime"]) \o "_" \o modality \o ".jpg"

color_image(data, env) ==
    LET j == json_loads(data)
        d == j.d
        f == ReadFile(StrOf(d["color_image_path"]))
        final_path == FinalPath(d, "color")
    IN  IF Prologue(j) # "none" THEN Raise(Prologue(j))
        ELSE IF "color_image_path" \notin DOMAIN d
        THEN Return(None)                          \* except KeyError
        ELSE IF f.kind = "missing"
        THEN Return(None)                          \* open: except OSError
        ELSE IF env = "mkdir_fail"
        THEN Return(None)                          \* mkdir: except OSError
        ELSE IF \/ "color_image_width" \notin DOMAIN d
                \/ "color_image_height" \notin DOMAIN d
        THEN [Return(None) EXCEPT !.mkdir = TRUE]  \* except KeyError
        ELSE IF f.len # 3 * NumOf(d["color_image_width"])
                            * NumOf(d["color_image_height"])
        THEN [Raise("ValueError") EXCEPT !.mkdir = TRUE]  \* Image.frombytes
        ELSE IF env = "save_fail"
        THEN [Return(None) EXCEPT !.mkdir = TRUE]  \* save: except OSError
        ELSE [exc |-> "none",
              ret |-> json_dumps(<<
                  <<"user_id", d["user_id"]>>,
                  <<"datetime", d["datetime"]>>,
                  <<"color_image_path", Str(final_path)>>,
                  <<"height", d["color_image_height"]>>,
                  <<"width", d["color_image_width"]>> >>),
              wrote |-> {final_path}, mkdir |-> TRUE, rows |-> << >>]

\* Python's seq[a:b] for a >= 0 (0-based, b exclusive; a negative b counts
\* from the end).
PySlice(seq, a, b) ==
    LET n == Len(seq)
        hi0 == IF b < 0 THEN b + n ELSE b
        hi == IF hi0 < 0 THEN 0 ELSE IF hi0 > n THEN n ELSE hi0
    IN  IF a >= hi THEN << >> ELSE SubSeq(seq, a + 1, hi)

\* Rows that keep all width elements of their line.
ReshapeFullWidth(image_array, width, height) ==
    [i \in 1..height |->
        PySlice(image_array, (i-1) * width, (i-1) * width + width)]

\* new_array of depth_image: one slice per row.
Reshape(image_array, width, height) ==
    [i \in 1..height |->
        PySlice(image_array, (i-1) * width, (i-1) * width + (width - 1))]

\* plt.imshow accepts a non-empty rectangular grid only.
Rectangular(rows) ==
    /\ Len(rows) >= 1
    /\ Len(rows[1]) >= 1
    /\ \A i \in 1..Len(rows) : Len(rows[i]) = Len(rows[1])

depth_image(data, env) ==
    LET j == json_loads(data)
        d == j.d
        f == ReadFile(StrOf(d["depth_image_path"]))
        final_path == FinalPath(d, "depth")
        new_array == Reshape(f.data, NumOf(d["depth_image_width"]),
                             NumOf(d["depth_image_height"]))
    IN  IF Prologue(j) # "none" THEN Raise(Prologue(j))
        ELSE IF "depth_image_path" \notin DOMAIN d
        THEN Return(None)                          \* except KeyError
        ELSE IF f.kind = "missing"
        THEN Return(None)                          \* except OSError: falls off
        ELSE IF f.kind \in {"raw", "text"}
        THEN Raise("ValueError")                   \* f.read / json.loads
        ELSE IF f.kind = "nodata"
        THEN Return(None)                          \* except KeyError
        ELSE IF \/ "depth_image_width" \notin DOMAIN d
                \/ "depth_image_height" \notin DOMAIN d
        THEN Return(None)                          \* except KeyError
        ELSE IF env = "mkdir_fail"
        THEN [Return(None) EXCEPT !.rows = <<new_array>>]
                                                   \* except OSError: falls off
        ELSE IF ~Rectangular(new_array)
        THEN [Raise("TypeError") EXCEPT !.mkdir = TRUE,
                                        !.rows = <<new_array>>]  \* plt.imshow
        ELSE IF env = "save_fail"
        THEN [Return(None) EXCEPT !.mkdir = TRUE, !.rows = <<new_array>>]
                                                   \* except OSError: falls off
        ELSE [exc |-> "none",
              ret |-> json_dumps(<<
                  <<"user_id", d["user_id"]>>,
                  <<"datetime", d["datetime"]>>,
                  <<"height", d["depth_image_height"]>>,
                  <<"width", d["depth_image_width"]>>,
                  <<"depth_image_path", Str(final_path)>> >>),
              wrote |-> {final_path}, mkdir |-> TRUE,
              rows |-> <<new_array>>]

(* ---------------------------------------------------------------------- *)
(* The registry                                                            *)
(* ---------------------------------------------------------------------- *)
\* A function object: its __name__ and the code it runs.
Func(name, impl) == [name |-> name, impl |-> impl]
BuiltinNames == {"pose", "color_image", "depth_image", "feelings"}

\* PARSERS once the module is imported: the four decorated functions.
ModuleParsers == [n \in BuiltinNames |-> Func(n, n)]

\* Functions a plug-in may decorate with @parser after the module's own:
\* one under a new name, one under a name that is already registered.
ExtraFuncs == {Func("mood", "feelings"), Func("pose", "feelings")}

\* parsers_dict[func.__name__] = func
DictSet(dict, k, v) ==
    [x \in DOMAIN dict \cup {k} |-> IF x = k THEN v ELSE dict[x]]

\* Calling a registered function on data.
Call(func, data, env) ==
    CASE func.impl = "pose" -> pose(data, env)
      [] func.impl = "color_image" -> color_image(data, env)
      [] func.impl = "depth_image" -> depth_image(data, env)
      [] OTHER -> feelings(data, env)

\* run_parser: parsers[parser_name](data); the subscript raises KeyError
\* for a name that is not registered.
run_parser(parsers, parser_name, data, env) ==
    IF parser_name \notin DOMAIN parsers THEN Raise("KeyError")
    ELSE Call(parsers[parser_name], data, env)

(* ---------------------------------------------------------------------- *)
(* Message bodies the producer sends                                       *)
(* ---------------------------------------------------------------------- *)
Users == {Str("u1"), Num(7)}
Datetime == Str("d1")

Numbered(fields) == [i \in 1..Len(fields) |-> <<fields[i], Num(i)>>]
Key(u) == <<  <<"user_id", u>>, <<"datetime", Datetime>>  >>

\* A complete snapshot for each parser.
FullPairs(name, u, path) ==
    CASE name = "pose" -> Key(u) \o Numbered(PoseFields)
      [] name = "feelings" -> Key(u) \o Numbered(FeelingsFields)
      [] name = "color_image" ->
            Key(u) \o <<  <<"color_image_path", Str(path)>>,
                          <<"color_image_width", Num(2)>>,
                          <<"color_image_height", Num(2)>>  >>
      [] OTHER ->
            Key(u) \o <<  <<"depth_image_path", Str(path)>>,
                          <<"depth_image_width", Num(3)>>,
                          <<"depth_image_height", Num(2)>>  >>

\* A complete depth snapshot of width w and height h.
DepthPairs(u, path, w, h) ==
    Key(u) \o <<  <<"depth_image_path", Str(path)>>,
                  <<"depth_image_width", Num(w)>>,
                  <<"depth_image_height", Num(h)>>  >>

\* The sizes of depth images and the data files that hold an array.
DepthShapes == {<<2, 1>>, <<2, 2>>, <<3, 1>>, <<3, 2>>}
ArrayPaths == {"d6.json", "d5.json", "d4.json", "d1.json"}

Omit(pairs, k) == SelectSeq(pairs, LAMBDA p : p[1] # k)

GoodPath(name) == IF name = "color_image" THEN "c12.bin" ELSE "d6.json"
PathsFor(name) ==
    CASE name = "color_image" -> {"c12.bin", "c9.bin", "gone"}
      [] name = "depth_image" ->
            {"d6.json", "d4.json", "bad.json", "nodata.json", "gone"}
      [] OTHER -> {"gone"}

\* The parser whose snapshots are given to a process started for name.
ShapeFor(name) ==
    IF name \in BuiltinNames THEN name
    ELSE IF name = "mood" THEN "feelings" ELSE "pose"
GoodBody(name) ==
    ObjBody(FullPairs(ShapeFor(name), Str("u1"), GoodPath(ShapeFor(name))))
\* A snapshot whose text repeats the user_id key with another value.
RepeatedKeyBody(name) ==
    ObjBody(GoodBody(name).pairs \o <<  <<"user_id", Num(7)>>  >>)

\* Bodies given to a one-shot run: undecodable bytes, a JSON list,
\* complete snapshots, snapshots lacking one field, a snapshot with a
\* repeated key and, for depth_image, snapshots of every size with arrays
\* of every length.
BodiesFor(name) ==
    LET n == ShapeFor(name)
    IN  {BadBody, ArrBody, RepeatedKeyBody(name)}
        \cup {ObjBody(FullPairs(n, u, p)) : u \in Users, p \in PathsFor(n)}
        \cup {ObjBody(Omit(GoodBody(name).pairs, k)) :
                  k \in Keys(GoodBody(name).pairs)}
        \cup (IF n = "depth_image"
              THEN {ObjBody(DepthPairs(Str("u1"), p, s[1], s[2])) :
                        p \in ArrayPaths, s \in DepthShapes}
              ELSE {})

\* Bodies sent to the queue of a worker: undecodable bytes, a JSON list,
\* a complete snapshot, one with a repeated key, one lacking user_id, one
\* lacking its last field and, for the image parsers, one whose data file
\* does not hold the image.
BadPaths(name) ==
    CASE name = "color_image" -> {"c9.bin"}
      [] name = "depth_image" -> {"bad.json"}
      [] OTHER -> {}
SentBodies(name) ==
    LET full == GoodBody(name).pairs
    IN  {BadBody, ArrBody, GoodBody(name), RepeatedKeyBody(name),
         ObjBody(Omit(full, "user_id")),
         ObjBody(Omit(full, full[Len(full)][1]))}
        \cup {ObjBody(FullPairs(ShapeFor(name), Str("u1"), p)) :
                  p \in BadPaths(name)}

(* ---------------------------------------------------------------------- *)
(* State                                                                   *)
(* ---------------------------------------------------------------------- *)
VARIABLES
    PARSERS,      \* the registry: name -> function
    regs,         \* decorator calls made after the module's own
    pc,           \* where the process is
    entry,        \* how it was started: "wrapper", "direct" ("none" before)
    mode,         \* what it was started for: "once", "service"
    parser_name,  \* the name the process was started with
    stop,         \* why the process ended ("none" while it runs)
    connection,   \* the broker connection is open
    channels,     \* channels opened on the connection
    exchanges,    \* exchanges declared at the broker: <<name, type>>
    queues,       \* exclusive queues declared at the broker
    bindings,     \* <<exchange, queue, routing key>>
    consumer,     \* basic_consume registered the callback
    queue,        \* messages waiting in the worker's queue
    unacked,      \* ids of messages delivered and not yet acknowledged
    sent,         \* messages the producer has sent
    cur,          \* the message the callback is working on
    result,       \* result of run_parser in the callback
    published,    \* what the broker received through basic_publish
    delivered,    \* ids of the messages handed to the callback, in order
    handled,      \* per run_parser call: its message and its outcome
    artifacts,    \* files in PROCESSED_DIRECTORY
    dirMade,      \* PROCESSED_DIRECTORY exists
    new_array,    \* the rows the latest depth_image call built for imshow
    onceOut,      \* what the one-shot run returned
    pc2,          \* where a second worker process is ("none": not started)
    name2,        \* the name the second worker was started with
    stop2,        \* why the second worker ended
    queues2,      \* exclusive queues the second worker's connection holds
    queue2,       \* messages waiting in the second worker's queue
    handled2,     \* the messages the second worker's callback was given
    published2    \* what the broker received from the second worker

vars == <<PARSERS, regs, pc, entry, mode, parser_name, stop, connection,
          channels, exchanges, queues, bindings, consumer, queue, unacked,
          sent, cur, result, published, delivered, handled, artifacts,
          dirMade, new_array, onceOut, pc2, name2, stop2, queues2, queue2,
          handled2, published2>>

broker == <<connection, channels, exchanges, queues, bindings, consumer,
            queue, unacked, sent, published>>
files == <<artifacts, dirMade, new_array>>
registry == <<PARSERS, regs>>
started == <<entry, mode, parser_name>>
second == <<pc2, name2, stop2, queues2, queue2, handled2, published2>>

NoMsg == [body |-> None, id |-> 0]

Init ==
    /\ PARSERS = ModuleParsers
    /\ regs = 0
    /\ pc = "import"
    /\ entry = "none"
    /\ mode = "none"
    /\ parser_name = ""
    /\ stop = "none"
    /\ connection = FALSE
    /\ channels = 0
    /\ exchanges = {}
    /\ queues = {}
    /\ bindings = {}
    /\ consumer = FALSE
    /\ queue = << >>
    /\ unacked = {}
    /\ sent = 0
    /\ cur = NoMsg
    /\ result = None
    /\ published = << >>
    /\ delivered = << >>
    /\ handled = << >>
    /\ artifacts = {}
    /\ dirMade = FALSE
    /\ new_array = << >>
    /\ onceOut = None
    /\ pc2 = "none"
    /\ name2 = ""
    /\ stop2 = "none"
    /\ queues2 = {}
    /\ queue2 = << >>
    /\ handled2 = << >>
    /\ published2 = << >>

(* ---------------------------------------------------------------------- *)
(* Helpers of the actions                                                  *)
(* ---------------------------------------------------------------------- *)
\* basic_consume without auto_ack: deliveries wait for a basic_ack.
AutoAckOff == FALSE

\* auto_ack of channel.basic_consume.
AutoAck == TRUE

\* A callback that takes every return value for a result.
IsNoneNever(r) == FALSE

\* "if result is None" of parser_callback.
IsNone(r) == r = None

\* The process ends (sys.exit in exit_run, or an exception nobody catches):
\* its connection closes and the broker deletes its exclusive queue with
\* whatever the queue holds.
StopProcess(reason) ==
    /\ pc' = "Stopped"
    /\ stop' = reason
    /\ connection' = FALSE
    /\ consumer' = FALSE
    /\ queues' = {}
    /\ bindings' = {}
    /\ queue' = << >>
    /\ unacked' = {}

\* The record kept of one run_parser call.
Outcome(id, body, env, out) ==
    [body |-> body, exc |-> out.exc, ret |-> out.ret, env |-> env, id |-> id]

\* File effects of one parser call.
ApplyFiles(out) ==
    /\ artifacts' = artifacts \cup out.wrote
    /\ dirMade' = (dirMade \/ out.mkdir)
    /\ new_array' = IF out.rows = << >> THEN new_array ELSE out.rows[1]

\* mkdir without exist_ok.
ExistOkFalse == FALSE

\* exist_ok of pathlib.Path(PROCESSED_DIRECTORY).mkdir.
ExistOk == TRUE

\* What a call meets at its mkdir: the failure env of the environment, or
\* FileExistsError (an OSError) for a directory that exists when exist_ok
\* is not set.
Mkdir(exists, env) == IF exists /\ ~ExistOk THEN "mkdir_fail" ELSE env

StartNames == BuiltinNames \cup {"mood", "nosuch"}

\* The write failures a call can meet: those of a write it gets to.
EnvFor(parsers, name, data) ==
    {e \in WriteEnv :
        \/ e = "ok"
        \/ run_parser(parsers, name, data, e)
              # run_parser(parsers, name, data, "ok")}

(* ---------------------------------------------------------------------- *)
(* Actions                                                                 *)
(* ---------------------------------------------------------------------- *)
\* A decorator that is also applied while the process runs.
AtAnyTime(where) == TRUE

\* The @parser lines are module-level statements: they run when the module
\* is imported, before any entry point is called.
AtImport(where) == where = "import"

\* The decorator @parser applied to func.
parser(func) ==
    /\ AtImport(pc)
    /\ regs < MaxRegs
    /\ PARSERS' = DictSet(PARSERS, func.name, func)
    /\ regs' = regs + 1
    /\ UNCHANGED <<pc, started, stop, cur, result, delivered, handled,
                   onceOut>>
    /\ UNCHANGED <<broker, files>>
    /\ UNCHANGED second

\* A wrapper that takes every name for a registered one.
KnownAlways(parsers, name) == TRUE

\* "parser_name not in globals()["PARSERS"]" of run_parser_wrapper, negated.
Known(parsers, name) == name \in DOMAIN parsers

\* run_parser_wrapper(name, data, mq, action); readable tells whether the
\* data file of a one-shot run can be read, data is its content.
run_parser_wrapper(name, action, readable, data) ==
    /\ pc = "import"
    /\ parser_name' = name
    /\ entry' = "wrapper"
    /\ mode' = action
    /\ IF ~Known(PARSERS, name)
       THEN \* error_list_parsers(); sys.exit(1)
            /\ StopProcess("unknown_parser")
            /\ UNCHANGED <<handled, onceOut, files>>
       ELSE IF action = "service"
       THEN /\ pc' = "Connecting"
            /\ UNCHANGED <<stop, connection, consumer, queues, bindings,
                           queue, unacked, handled, onceOut, files>>
       ELSE IF ~readable
       THEN \* exit_run()
            /\ StopProcess("data_file")
            /\ UNCHANGED <<handled, onceOut, files>>
       ELSE \E env \in EnvFor(PARSERS, name, data) :
            LET out == run_parser(PARSERS, name, data, Mkdir(dirMade, env))
            IN  /\ ApplyFiles(out)
                /\ handled' = <<Outcome(0, data, env, out)>>
                /\ IF out.exc # "none"
                   THEN StopProcess(out.exc) /\ UNCHANGED onceOut
                   ELSE /\ pc' = "Done"
                        /\ onceOut' = out.ret
                        /\ UNCHANGED <<stop, connection, consumer, queues,
                                       bindings, queue, unacked>>
    /\ UNCHANGED <<registry, channels, exchanges, sent, cur, result,
                   published, delivered>>
    /\ UNCHANGED second

\* run_parser_service(name, mq) called without the wrapper.
run_parser_service(name) ==
    /\ pc = "import"
    /\ parser_name' = name
    /\ entry' = "direct"
    /\ mode' = "service"
    /\ pc' = "Connecting"
    /\ UNCHANGED <<registry, stop, cur, result, delivered, handled, onceOut>>
    /\ UNCHANGED <<broker, files>>
    /\ UNCHANGED second

\* run_parser(name, data) called without the wrapper.
run_parser_once(name, data) ==
    /\ pc = "import"
    /\ parser_name' = name
    /\ entry' = "direct"
    /\ mode' = "once"
    /\ \E env \in EnvFor(PARSERS, name, data) :
       LET out == run_parser(PARSERS, name, data, Mkdir(dirMade, env))
       IN  /\ ApplyFiles(out)
           /\ handled' = <<Outcome(0, data, env, out)>>
           /\ IF out.exc # "none"
              THEN StopProcess(out.exc) /\ UNCHANGED onceOut
              ELSE /\ pc' = "Done"
                   /\ onceOut' = out.ret
                   /\ UNCHANGED <<stop, connection, consumer, queues,
                                  bindings, queue, unacked>>
    /\ UNCHANGED <<registry, channels, exchanges, sent, cur, result,
                   published, delivered>>
    /\ UNCHANGED second

\* pika.BlockingConnection(...): the connection opens or a pika error is
\* caught and exit_run() ends the process.
Connect(ok) ==
    /\ pc = "Connecting"
    /\ IF ok
       THEN /\ connection' = TRUE
            /\ pc' = "Binding"
            /\ UNCHANGED <<stop, consumer, queues, bindings, queue, unacked>>
       ELSE StopProcess("broker")
    /\ UNCHANGED <<registry, started, channels, exchanges, sent, cur, result,
                   published, delivered, handled, onceOut, files>>
    /\ UNCHANGED second

\* connection.channel(), exchange_declare, queue_declare, queue_bind;
\* failAt names the call that raises a pika error ("none": all succeed).
BindSteps == <<"channel", "exchange_declare", "queue_declare", "queue_bind">>
Min(a, b) == IF a < b THEN a ELSE b
Max(a, b) == IF a > b THEN a ELSE b
StepNo(steps, failAt) ==
    IF \E i \in 1..Len(steps) : steps[i] = failAt
    THEN CHOOSE i \in 1..Len(steps) : steps[i] = failAt
    ELSE Len(steps) + 1
\* One queue, named by CHANNEL_NAME, for every parser.
QueueNameShared(name) == CHANNEL_NAME

\* queue = parser_name of queue_declare, queue_bind and basic_consume.
QueueName(name) == name

\* A queue_declare without exclusive.
ExclusiveOff == FALSE

\* exclusive of channel.queue_declare.
Exclusive == TRUE

\* The broker refuses the queue_declare of queue q (a channel error at the
\* client) when another connection holds q as its exclusive queue.
Locked(q, held) == Exclusive /\ q \in held

Bind(failAt) ==
    LET n == IF Locked(QueueName(parser_name), queues2)
             THEN Min(StepNo(BindSteps, failAt), 3)
             ELSE StepNo(BindSteps, failAt)  \* calls 1..n-1 succeed
    IN  /\ pc = "Binding"
        /\ channels' = IF n > 1 THEN channels + 1 ELSE channels
        /\ exchanges' = IF n > 2
                        THEN exchanges \cup {<<EXCHANGE_NAME, "direct">>}
                        ELSE exchanges
        /\ IF n > Len(BindSteps)
           THEN /\ queues' = queues \cup {QueueName(parser_name)}
                /\ bindings' = bindings \cup
                       {<<EXCHANGE_NAME, QueueName(parser_name),
                          EXCHANGE_NAME>>}
                /\ pc' = "Bound"
                /\ UNCHANGED <<stop, connection, consumer, queue, unacked>>
           ELSE StopProcess("broker")
        /\ UNCHANGED <<registry, started, sent, cur, result, published,
                       delivered, handled, onceOut, files>>
        /\ UNCHANGED second

\* channel.basic_consume(...); channel.start_consuming()
StartConsuming(ok) ==
    /\ pc = "Bound"
    /\ IF ok
       THEN /\ consumer' = TRUE
            /\ pc' = "Consuming"
            /\ UNCHANGED <<stop, connection, queues, bindings, queue,
                           unacked>>
       ELSE StopProcess("broker")
    /\ UNCHANGED <<registry, started, channels, exchanges, sent, cur, result,
                   published, delivered, handled, onceOut, files>>
    /\ UNCHANGED second

\* A producer publishes body to exchange snapshot with routing key
\* snapshot; the direct exchange routes it to every queue bound under that
\* key: the worker's queue and the second worker's.
Send(body) ==
    LET bound1 == <<EXCHANGE_NAME, QueueName(parser_name), EXCHANGE_NAME>>
                      \in bindings
        bound2 == pc2 = "Consuming"
        message == [body |-> body, id |-> sent + 1]
    IN  /\ bound1 \/ bound2
        /\ sent < MaxMsgs
        /\ Len(queue) < MaxQueue
        /\ Len(queue2) < MaxQueue
        /\ sent' = sent + 1
        /\ queue' = IF bound1 THEN Append(queue, message) ELSE queue
        /\ queue2' = IF bound2 THEN Append(queue2, message) ELSE queue2
        /\ UNCHANGED <<registry, pc, started, stop, connection, channels,
                       exchanges, queues, bindings, consumer, unacked, cur,
                       result, published, delivered, handled, onceOut, files>>
        /\ UNCHANGED <<pc2, name2, stop2, queues2, handled2, published2>>

\* The message the broker takes from a queue that is served newest first.
NewestMessage(q) == q[Len(q)]

\* The message the broker delivers next: the oldest one of the queue.
NextMessage(q) == Head(q)

\* The broker delivers the head of the queue and pika calls
\* parser_callback with it; with auto_ack the delivery is its own
\* acknowledgement.
Deliver ==
    /\ pc = "Consuming"
    /\ consumer
    /\ queue # << >>
    /\ cur' = NextMessage(queue)
    /\ queue' = SelectSeq(queue, LAMBDA m : m # NextMessage(queue))
    /\ unacked' = IF AutoAck THEN unacked
                  ELSE unacked \cup {NextMessage(queue).id}
    /\ delivered' = Append(delivered, NextMessage(queue).id)
    /\ pc' = "Dispatching"
    /\ UNCHANGED <<registry, started, stop, connection, channels, exchanges,
                   queues, bindings, consumer, sent, result, published,
                   handled, onceOut, files>>
    /\ UNCHANGED second

\* parser_callback, first part: result = run_parser(parser_name, body);
\* if result is None: return.  env is what the environment does to the
\* writes of this call.  An exception of run_parser is none of the
\* pika errors run_parser_service catches, so it ends the process.
Dispatch ==
    /\ pc = "Dispatching"
    /\ \E env \in EnvFor(PARSERS, parser_name, cur.body) :
        LET out == run_parser(PARSERS, parser_name, cur.body,
                              Mkdir(dirMade, env))
        IN
        /\ ApplyFiles(out)
        /\ handled' = Append(handled, Outcome(cur.id, cur.body, env, out))
        /\ IF out.exc # "none"
           THEN StopProcess(out.exc) /\ UNCHANGED <<cur, result>>
           ELSE IF IsNone(out.ret)
           THEN /\ pc' = "Consuming"
                /\ cur' = NoMsg
                /\ UNCHANGED <<result, stop, connection, consumer, queues,
                               bindings, queue, unacked>>
           ELSE /\ pc' = "Publishing"
                /\ result' = out.ret
                /\ UNCHANGED <<cur, stop, connection, consumer, queues,
                               bindings, queue, unacked>>
    /\ UNCHANGED <<registry, started, channels, exchanges, sent, published,
                   delivered, onceOut>>
    /\ UNCHANGED second

\* parser_callback, second part: a new channel, exchange_declare of the
\* topic exchange, basic_publish; failAt names the call that raises a pika
\* error, which run_parser_service catches and answers with exit_run().
PublishSteps == <<"channel", "exchange_declare", "basic_publish">>
\* The routing key of the inbound binding instead of the parser's name.
RoutingKeyInbound(name) == EXCHANGE_NAME

\* routing_key = parser_name
RoutingKey(name) == name

\* A callback that publishes on the channel it consumes from.
publish_on_consume_channel(open) == open

\* publish_channel = connection.channel(): one more channel is open on the
\* connection; nothing closes it.
publish_channel(open) == open + 1

Publish(failAt) ==
    LET n == StepNo(PublishSteps, failAt)
    IN  /\ pc = "Publishing"
        /\ channels' = IF n > 1 THEN publish_channel(channels) ELSE channels
        /\ exchanges' = IF n > 2
                        THEN exchanges \cup {<<EXCHANGE_PUBLISH, "topic">>}
                        ELSE exchanges
        /\ IF n > Len(PublishSteps)
           THEN /\ published' = Append(published,
                      [body |-> result,
                       exchange |-> EXCHANGE_PUBLISH,
                       routing_key |-> RoutingKey(parser_name),
                       msg |-> cur.id])
                /\ pc' = "Consuming"
                /\ cur' = NoMsg
                /\ result' = None
                /\ UNCHANGED <<stop, connection, consumer, queues, bindings,
                               queue, unacked>>
           ELSE /\ StopProcess("broker")
                /\ UNCHANGED <<published, cur, result>>
        /\ UNCHANGED <<registry, started, sent, delivered, handled,
                       onceOut, files>>
        /\ UNCHANGED second

\* The connection or channel fails while start_consuming waits for a
\* message: the pika error is caught and exit_run() ends the process.
BrokerError ==
    /\ pc = "Consuming"
    /\ StopProcess("broker")
    /\ UNCHANGED <<registry, started, channels, exchanges, sent, cur, result,
                   published, delivered, handled, onceOut, files>>
    /\ UNCHANGED second

(* ---------------------------------------------------------------------- *)
(* A second worker process: run_parser_service in another process, its     *)
(* calls up to queue_declare taken together and its callback as one step.  *)
(* ---------------------------------------------------------------------- *)
first == <<registry, pc, started, stop, connection, channels, exchanges,
           queues, bindings, consumer, queue, unacked, cur, result,
           published, delivered, handled, onceOut, files>>

\* The second process ends: the broker deletes its exclusive queue.
StopSecond(reason) ==
    /\ pc2' = "Stopped"
    /\ stop2' = reason
    /\ queues2' = {}
    /\ queue2' = << >>

\* run_parser_service(name, mq) in the second process: connection, channel
\* and exchange_declare.
SecondConnect(name) ==
    /\ pc2 = "none"
    /\ pc2' = "Binding"
    /\ name2' = name
    /\ UNCHANGED <<stop2, queues2, queue2, handled2, published2, sent>>
    /\ UNCHANGED first

\* queue_declare(queue=parser_name, exclusive=True), queue_bind,
\* basic_consume and start_consuming in the second process; a refused
\* queue_declare is a pika channel error, answered with exit_run().
SecondBind ==
    /\ pc2 = "Binding"
    /\ IF Locked(QueueName(name2), queues)
       THEN /\ StopSecond("queue_declare")
       ELSE /\ queues2' = {QueueName(name2)}
            /\ pc2' = "Consuming"
            /\ UNCHANGED <<stop2, queue2>>
    /\ UNCHANGED <<name2, handled2, published2, sent>>
    /\ UNCHANGED first

\* parser_callback in the second process for the oldest message of its
\* queue: run_parser, then the publish of the result if there is one.
SecondCallback ==
    /\ pc2 = "Consuming"
    /\ queue2 # << >>
    /\ LET m == NextMessage(queue2)
           out == run_parser(PARSERS, name2, m.body, "ok")
       IN  /\ handled2' = Append(handled2, m)
           /\ IF out.exc # "none"
              THEN StopSecond(out.exc) /\ UNCHANGED published2
              ELSE /\ queue2' = SelectSeq(queue2, LAMBDA x : x # m)
                   /\ published2' =
                         IF IsNone(out.ret) THEN published2
                         ELSE Append(published2,
                                     [body |-> out.ret,
                                      exchange |-> EXCHANGE_PUBLISH,
                                      routing_key |-> RoutingKey(name2),
                                      msg |-> m.id])
                   /\ UNCHANGED <<pc2, stop2, queues2>>
    /\ UNCHANGED <<name2, sent>>
    /\ UNCHANGED first

\* A pika error ends the second process while it waits for a message.
SecondBrokerError ==
    /\ pc2 = "Consuming"
    /\ StopSecond("broker")
    /\ UNCHANGED <<name2, handled2, published2, sent>>
    /\ UNCHANGED first

Next ==
    \/ \E f \in ExtraFuncs : parser(f)
    \/ \E name \in StartNames, action \in {"once", "service"},
          readable \in BOOLEAN :
          \E data \in BodiesFor(name) :
              run_parser_wrapper(name, action, readable, data)
    \/ \E name \in StartNames : run_parser_service(name)
    \/ \E name \in StartNames :
          \E data \in BodiesFor(name) : run_parser_once(name, data)
    \/ \E ok \in BOOLEAN : Connect(ok)
    \/ \E failAt \in {"none"} \cup {BindSteps[i] : i \in 1..Len(BindSteps)} :
          Bind(failAt)
    \/ \E ok \in BOOLEAN : StartConsuming(ok)
    \/ \E body \in SentBodies(parser_name) : Send(body)
    \/ Deliver
    \/ Dispatch
    \/ \E failAt \in {"none"} \cup
                     {PublishSteps[i] : i \in 1..Len(PublishSteps)} :
          Publish(failAt)
    \/ BrokerError

Spec == Init /\ [][Next]_vars

\* Two workers at one broker: both started as services for pose or
\* feelings, the producer sending snapshots with the fields of both, with
\* the pose fields only, and undecodable bytes.
TwoNames == {"pose", "feelings"}
FullSnapshot ==
    ObjBody(Key(Str("u1")) \o Numbered(PoseFields) \o Numbered(FeelingsFields))
TwoBodies == {FullSnapshot, GoodBody("pose"), BadBody}

NextTwo ==
    \/ \E name \in TwoNames :
          run_parser_wrapper(name, "service", TRUE, BadBody)
    \/ \E ok \in BOOLEAN : Connect(ok)
    \/ \E failAt \in {"none"} \cup {BindSteps[i] : i \in 1..Len(BindSteps)} :
          Bind(failAt)
    \/ \E ok \in BOOLEAN : StartConsuming(ok)
    \/ \E body \in TwoBodies : Send(body)
    \/ Deliver
    \/ Dispatch
    \/ \E failAt \in {"none"} \cup
                     {PublishSteps[i] : i \in 1..Len(PublishSteps)} :
          Publish(failAt)
    \/ BrokerError
    \/ \E name \in TwoNames : SecondConnect(name)
    \/ SecondBind
    \/ SecondCallback
    \/ SecondBrokerError

SpecTwo == Init /\ [][NextTwo]_vars

(* ---------------------------------------------------------------------- *)
(* Properties                                                              *)
(* ---------------------------------------------------------------------- *)
Registered == parser_name \in DOMAIN PARSERS
Impl == PARSERS[parser_name].impl
InService == mode = "service"
PubCount(id) == Cardinality({i \in DOMAIN published : published[i].msg = id})
Snapshot(body) == json_loads(body).d
YieldsResult(h) == h.exc = "none" /\ h.ret # None
Rejected(h) == h.exc = "none" /\ h.ret = None

\* C1: in the service loop no per-message error ends the loop: a worker
\* started for a registered name is Stopped only by a broker error.
C1_OnlyBrokerErrorStopsLoop ==
    (InService /\ Registered /\ pc = "Stopped") => stop = "broker"

\* C2: a body that is not a decodable JSON object is dropped: run_parser
\* raises nothing, returns no result, and nothing is published for it.
C2_UndecodableBodyDropped ==
    \A k \in DOMAIN handled :
        (Registered /\ handled[k].body.kind \in {"bad", "arr"}) =>
            /\ Rejected(handled[k])
            /\ PubCount(handled[k].id) = 0

\* The snapshots that lack exactly one of the fields a parser needs.
LacksOneField(impl) ==
    LET full == FullPairs(impl, Str("u1"), GoodPath(impl))
    IN  {ObjBody(Omit(full, k)) : k \in Keys(full)}

\* C3: every parser, given a record that lacks any single field it needs,
\* returns rejected and lets no exception escape.
C3_MissingFieldRejected ==
    \A k \in DOMAIN handled :
        (Registered /\ handled[k].body \in LacksOneField(Impl)) =>
            Rejected(handled[k])

\* A complete snapshot of an image parser whose data file cannot be read
\* as the image it announces, or whose artifact cannot be written.
CompleteSnapshots(impl) ==
    {ObjBody(FullPairs(impl, u, p)) : u \in Users, p \in PathsFor(impl)}
ReadFails(impl, body) ==
    LET d == Snapshot(body)
        f == ReadFile(StrOf(d[impl \o "_path"]))
        w == NumOf(d[impl \o "_width"])
        h == NumOf(d[impl \o "_height"])
    IN  \/ f.kind = "missing"
        \/ impl = "color_image" /\ f.len # 3 * w * h
        \/ impl = "depth_image" /\ f.kind # "json"
        \/ impl = "depth_image" /\ Len(f.data) # w * h

\* C4: for color_image and depth_image every failure to read the data
\* file or to write the artifact degrades to rejected: no exception, no
\* result, no publish.
C4_ArtifactIOFailureRejected ==
    \A k \in DOMAIN handled :
        LET h == handled[k]
        IN  (/\ Registered
             /\ Impl \in {"color_image", "depth_image"}
             /\ h.body \in CompleteSnapshots(Impl)
             /\ (ReadFails(Impl, h.body) \/ h.env # "ok")) =>
                /\ Rejected(h)
                /\ PubCount(h.id) = 0

\* The outcome recorded for a message is what run_parser gives for its
\* body alone.
OutcomeOfBodyAlone(h) ==
    LET out == run_parser(PARSERS, parser_name, h.body, h.env)
    IN  h.exc = out.exc /\ h.ret = out.ret

\* C5 as stated: at most one publish per message; a message whose dispatch
\* yields a result has been handed to basic_publish exactly once as soon
\* as the callback is through with it, a rejected one never; the outcome
\* does not depend on earlier messages.
C5_ResultPublishedExactlyOnce ==
    InService => \A k \in DOMAIN handled :
        LET h == handled[k]
        IN  /\ PubCount(h.id) <= 1
            /\ ~YieldsResult(h) => PubCount(h.id) = 0
            /\ (YieldsResult(h) /\ ~(pc = "Publishing" /\ cur.id = h.id))
                  => PubCount(h.id) = 1
            /\ OutcomeOfBodyAlone(h)

\* C5 amended: at most one publish per message; a message whose dispatch
\* yields a result is handed to basic_publish exactly once, unless a broker
\* error in opening the publish channel, declaring the exchange or
\* publishing ends the loop first, and then it is not published at all; a
\* rejected message is never published; the outcome does not depend on
\* earlier messages.
C5_AtMostOnePublish ==
    InService => \A k \in DOMAIN handled :
        LET h == handled[k]
        IN  /\ PubCount(h.id) <= 1
            /\ ~YieldsResult(h) => PubCount(h.id) = 0
            /\ (YieldsResult(h) /\ cur.id # h.id) => PubCount(h.id) = 1
            /\ (YieldsResult(h) /\ cur.id = h.id) =>
                  /\ PubCount(h.id) = 0
                  /\ \/ pc = "Publishing"
                     \/ pc = "Stopped" /\ stop = "broker"
            /\ OutcomeOfBodyAlone(h)

\* A result that was published once, followed by a result that a broker
\* error kept from being published.
C5_Witness ==
    /\ pc = "Stopped"
    /\ \E k \in DOMAIN handled :
          YieldsResult(handled[k]) /\ PubCount(handled[k].id) = 1
    /\ \E k \in DOMAIN handled :
          YieldsResult(handled[k]) /\ PubCount(handled[k].id) = 0

SameKey(resultBody, snapshotBody) ==
    /\ Snapshot(resultBody)["user_id"] = Snapshot(snapshotBody)["user_id"]
    /\ Snapshot(resultBody)["datetime"] = Snapshot(snapshotBody)["datetime"]

\* C6: every result a parser returns, and so every published message,
\* carries the user_id and datetime of the snapshot that triggered it.
C6_CorrelationKeyEchoed ==
    /\ \A k \in DOMAIN handled :
          YieldsResult(handled[k]) =>
              SameKey(handled[k].ret, handled[k].body)
    /\ \A i \in DOMAIN published : \A k \in DOMAIN handled :
          handled[k].id = published[i].msg =>
              SameKey(published[i].body, handled[k].body)
    /\ pc = "Publishing" => SameKey(result, cur.body)
    /\ (pc = "Done" /\ onceOut # None) => SameKey(onceOut, handled[1].body)

\* Results published for two snapshots with different user_id values, one
\* of them written with a repeated user_id key.
C6_Witness ==
    /\ \E i \in DOMAIN published :
          Snapshot(published[i].body)["user_id"] = Str("u1")
    /\ \E i \in DOMAIN published : \E k \in DOMAIN handled :
          /\ handled[k].id = published[i].msg
          /\ handled[k].body.pairs[1][2] = Str("u1")
          /\ Snapshot(published[i].body)["user_id"] = Num(7)

\* The result of the spec's pose example.
PoseExampleIn == ObjBody(FullPairs("pose", Str("u1"), "gone"))
PoseExampleOut ==
    ObjBody(<<  <<"user_id", Str("u1")>>, <<"datetime", Str("d1")>>,
                <<"rotation_x", Num(1)>>, <<"rotation_y", Num(2)>>,
                <<"rotation_z", Num(3)>>, <<"rotation_w", Num(4)>>,
                <<"translation_x", Num(5)>>, <<"translation_y", Num(6)>>,
                <<"translation_z", Num(7)>>  >>)

\* C7: every publish of the loop for name N goes to the topic exchange
\* processed_data, never to snapshot, with routing key N, and its body is
\* the result of N's parser on the consumed message; a pose snapshot
\* yields the remapped pose fields.
C7_PublishedToProcessedData ==
    \A i \in DOMAIN published :
        LET p == published[i]
        IN  /\ p.exchange = "processed_data"
            /\ p.exchange # EXCHANGE_NAME
            /\ <<"processed_data", "topic">> \in exchanges
            /\ p.routing_key = parser_name
            /\ \E k \in DOMAIN handled :
                  /\ handled[k].id = p.msg
                  /\ p.body = run_parser(PARSERS, parser_name,
                                         handled[k].body, handled[k].env).ret
                  /\ (PARSERS[parser_name] = Func("pose", "pose")
                      /\ handled[k].body = PoseExampleIn)
                        => p.body = PoseExampleOut

C7_Witness ==
    \E i \in DOMAIN published :
        /\ published[i].routing_key = "pose"
        /\ published[i].body = PoseExampleOut

\* C8: registering under a name that is already registered leaves the
\* registry as it was.
C8_DuplicateNameKeepsFirst ==
    [][\A n \in DOMAIN PARSERS :
          n \in DOMAIN PARSERS' /\ PARSERS'[n] = PARSERS[n]]_vars

\* C9: run_parser with a name that is not registered drops that request
\* and does not end the process.
C9_UnknownNameDropped ==
    ~(/\ ~Registered
      /\ pc = "Stopped"
      /\ stop \notin {"broker", "unknown_parser"})

NoDuplicates(seq) ==
    \A i, j \in DOMAIN seq : seq[i] = seq[j] => i = j
QueuedIds == {queue[i].id : i \in DOMAIN queue}
DeliveredIds == {delivered[i] : i \in DOMAIN delivered}

\* C10: delivery is at-most-once: a message is acknowledged on receipt,
\* before its dispatch starts, no message is dispatched twice, and a
\* message whose dispatch a crash interrupts is neither redelivered nor
\* published.
C10_AtMostOnceDelivery ==
    /\ DeliveredIds \cap unacked = {}
    /\ DeliveredIds \cap QueuedIds = {}
    /\ NoDuplicates(delivered)
    /\ NoDuplicates([k \in DOMAIN handled |-> handled[k].id])
    /\ pc \in {"Dispatching", "Publishing"} =>
          cur.id \in DeliveredIds /\ cur.id \notin unacked
    /\ (InService /\ pc = "Stopped" /\ cur # NoMsg) =>
          /\ PubCount(cur.id) = 0
          /\ cur.id \notin QueuedIds \cup unacked

\* A crash in the middle of the dispatch of the second delivered message.
C10_Witness ==
    /\ InService
    /\ pc = "Stopped"
    /\ stop \notin {"broker", "unknown_parser"}
    /\ cur # NoMsg
    /\ Len(delivered) = 2

\* The ids of the messages whose callback has run to its end with a result.
Ids(seq) == [i \in DOMAIN seq |-> seq[i].id]
CompletedResults ==
    Ids(SelectSeq(handled, LAMBDA h : YieldsResult(h) /\ h.id # cur.id))
Ascending(seq) == \A i, j \in DOMAIN seq : i < j => seq[i] < seq[j]

\* C11: within one service loop messages are processed one at a time and
\* in broker delivery order: a message is accepted only when the callback
\* of the one before it has run to its end, the messages are dispatched in
\* the order the broker received them, and the published results are, in
\* that order, those of the messages that yielded a result.
C11_OneAtATimeInOrder ==
    InService =>
        /\ Ascending(delivered)
        /\ Ids(handled) = SubSeq(delivered, 1, Len(handled))
        /\ Len(delivered) - Len(handled) =
              (IF pc = "Dispatching" THEN 1 ELSE 0)
        /\ pc \in {"Dispatching", "Publishing"} =>
              cur.id = delivered[Len(delivered)]
        /\ pc = "Consuming" => cur = NoMsg
        /\ [i \in DOMAIN published |-> published[i].msg] = CompletedResults

\* The result of the first message is published and the result of the
\* second one is about to be.
C11_Witness ==
    /\ InService
    /\ pc = "Publishing"
    /\ cur.id = 2
    /\ Len(published) = 1
    /\ published[1].msg = 1

\* C12: once the service loop has started the registry is immutable:
\* connecting, consuming, dispatching and publishing leave the mapping from
\* name to function unchanged and no registration happens.
C12_RegistryImmutableInLoop ==
    [][pc # "import" => (PARSERS' = PARSERS /\ regs' = regs)]_vars

\* A loop that runs a parser registered by a plug-in has consumed two
\* messages and published a result.
C12_Witness ==
    /\ InService
    /\ regs = 1
    /\ parser_name = "mood"
    /\ Len(handled) = 2
    /\ Len(published) >= 1
    /\ pc = "Consuming"

\* The pose fields of a snapshot and the names their values have in the
\* result.
PoseNames ==
    {<<"pose_rotation_x", "rotation_x">>, <<"pose_rotation_y", "rotation_y">>,
     <<"pose_rotation_z", "rotation_z">>, <<"pose_rotation_w", "rotation_w">>,
     <<"pose_translation_x", "translation_x">>,
     <<"pose_translation_y", "translation_y">>,
     <<"pose_translation_z", "translation_z">>}
CorrelationKey == {"user_id", "datetime"}

\* A record with exactly the fields pose requires, each written once.
ExactlyPoseFields(body) ==
    /\ body.kind = "obj"
    /\ Keys(body.pairs) = CorrelationKey \cup {n[1] : n \in PoseNames}
    /\ Len(body.pairs) = Cardinality(Keys(body.pairs))

\* The result holds the values of the snapshot under the unprefixed names,
\* with user_id and datetime.
PosePassedThrough(h) ==
    /\ YieldsResult(h)
    /\ h.ret.kind = "obj"
    /\ \A n \in PoseNames :
          /\ n[2] \in DOMAIN Snapshot(h.ret)
          /\ Snapshot(h.ret)[n[2]] = Snapshot(h.body)[n[1]]
    /\ \A k \in CorrelationKey :
          /\ k \in DOMAIN Snapshot(h.ret)
          /\ Snapshot(h.ret)[k] = Snapshot(h.body)[k]
NoFileWritten == artifacts = {} /\ ~dirMade

\* C13 as stated: pose run on a record with exactly its fields returns the
\* same eight numeric values under the unprefixed names, plus user_id and
\* datetime, and writes no file.
C13_PoseEightValues ==
    (Registered /\ Impl = "pose") =>
        \A k \in DOMAIN handled :
            ExactlyPoseFields(handled[k].body) =>
                /\ PosePassedThrough(handled[k])
                /\ Cardinality(DOMAIN Snapshot(handled[k].ret)
                                  \ CorrelationKey) = 8
                /\ NoFileWritten

\* C13 amended: pose run on a record with exactly its fields returns the
\* same seven numeric values (rotation x, y, z, w and translation x, y, z)
\* under the unprefixed names, plus user_id and datetime and nothing else,
\* and writes no file.
C13_PoseSevenValues ==
    (Registered /\ Impl = "pose") =>
        \A k \in DOMAIN handled :
            ExactlyPoseFields(handled[k].body) =>
                /\ PosePassedThrough(handled[k])
                /\ DOMAIN Snapshot(handled[k].ret) =
                      CorrelationKey \cup {n[2] : n \in PoseNames}
                /\ Cardinality(DOMAIN Snapshot(handled[k].ret)
                                  \ CorrelationKey) = 7
                /\ NoFileWritten

\* A one-shot run of pose on a complete record of user 7 has returned.
C13_Witness ==
    /\ pc = "Done"
    /\ Registered
    /\ Impl = "pose"
    /\ ExactlyPoseFields(handled[1].body)
    /\ Snapshot(handled[1].body)["user_id"] = Num(7)
    /\ onceOut = handled[1].ret
    /\ Snapshot(onceOut)["translation_z"] = Num(7)

\* The latest call is a depth_image call that read its array and sizes,
\* so that new_array is the list it built.
LastCall == handled[Len(handled)]
BuiltRows ==
    /\ handled # << >>
    /\ Registered
    /\ Impl = "depth_image"
    /\ LastCall.body.kind = "obj"
    /\ {"user_id", "datetime", "depth_image_path", "depth_image_width",
        "depth_image_height"} \subseteq DOMAIN Snapshot(LastCall.body)
    /\ ReadFile(StrOf(Snapshot(LastCall.body)["depth_image_path"])).kind
          = "json"
FlatArray == ReadFile(StrOf(Snapshot(LastCall.body)["depth_image_path"])).data
Width == NumOf(Snapshot(LastCall.body)["depth_image_width"])
Height == NumOf(Snapshot(LastCall.body)["depth_image_height"])

\* Row i (from 0) holds, in order, the elements at the flat indices
\* i*Width .. i*Width + n - 1 (from 0).
RowHolds(i, n) ==
    /\ Len(new_array[i + 1]) = n
    /\ \A j \in 0..(n - 1) :
          new_array[i + 1][j + 1] = FlatArray[i * Width + j + 1]

\* C14 as stated: depth_image reshapes the flat array into height rows and
\* row i holds exactly width-1 elements, those at the flat indices
\* i*width .. i*width+width-2, for every width, height and flat array.
C14_RowsOfWidthMinusOne ==
    BuiltRows =>
        /\ Len(new_array) = Height
        /\ \A i \in 0..(Height - 1) : RowHolds(i, Width - 1)

\* C14 amended: depth_image reshapes the flat array into height rows and
\* row i holds the elements at the flat indices i*width .. i*width+width-2
\* that the array has: exactly width-1 elements in every row when the
\* array has at least width*height-1 elements, and fewer (down to none) in
\* the rows a shorter array does not fill.
C14_RowsCutAtArrayEnd ==
    BuiltRows =>
        /\ Len(new_array) = Height
        /\ \A i \in 0..(Height - 1) :
              RowHolds(i, Max(0, Min(Width - 1, Len(FlatArray) - i * Width)))
        /\ Len(FlatArray) >= Width * Height - 1 =>
              \A i \in 0..(Height - 1) : Len(new_array[i + 1]) = Width - 1

\* A one-shot run on width 3, height 2 and an array of 5 values has drawn
\* the rows 1 2 and 4 5.
C14_Witness ==
    /\ pc = "Done"
    /\ BuiltRows
    /\ Width = 3
    /\ Height = 2
    /\ Len(FlatArray) = 5
    /\ new_array = <<  <<1, 2>>, <<4, 5>>  >>
    /\ artifacts # {}

\* The path of the artifact of a snapshot: PROCESSED_DIRECTORY, then
\* {user_id}_{datetime}_{modality}.jpg.
Text(v) == IF v[1] = "str" THEN v[2] ELSE ToString(v[2])
ArtifactPath(body, modality) ==
    "files/processed/" \o Text(Snapshot(body)["user_id"]) \o "_"
        \o Text(Snapshot(body)["datetime"]) \o "_" \o modality \o ".jpg"
Modality == IF Impl = "color_image" THEN "color" ELSE "depth"
ImageParser == Registered /\ Impl \in {"color_image", "depth_image"}
SameRun(k1, k2) ==
    /\ handled[k1].body = handled[k2].body
    /\ handled[k1].env = "ok"
    /\ handled[k2].env = "ok"

\* C15: every transform is idempotent on its input: two runs on the same
\* record, neither met by a write failure of the environment, give the
\* same result, and color_image and depth_image write the artifact of a
\* record to the one path {user_id}_{datetime}_{modality}.jpg, so that the
\* second run overwrites it and the set of artifact files stays the same.
C15_Idempotent ==
    /\ \A k1, k2 \in DOMAIN handled :
          SameRun(k1, k2) =>
              /\ handled[k1].exc = handled[k2].exc
              /\ handled[k1].ret = handled[k2].ret
    /\ ImageParser =>
          /\ \A k \in DOMAIN handled :
                YieldsResult(handled[k]) =>
                    /\ ArtifactPath(handled[k].body, Modality) \in artifacts
                    /\ Snapshot(handled[k].ret)[Impl \o "_path"] =
                          Str(ArtifactPath(handled[k].body, Modality))
          /\ artifacts \subseteq
                {ArtifactPath(handled[k].body, Modality) :
                    k \in {i \in DOMAIN handled : YieldsResult(handled[i])}}
    /\ ~ImageParser => artifacts = {}

\* color_image has run twice on the same record: two equal results and
\* one artifact file.
C15_Witness ==
    /\ InService
    /\ Registered
    /\ Impl = "color_image"
    /\ Len(handled) = 2
    /\ SameRun(1, 2)
    /\ YieldsResult(handled[1])
    /\ YieldsResult(handled[2])
    /\ Cardinality(artifacts) = 1

\* The broker side of a worker that is bound: connection open, the direct
\* exchange snapshot declared, the exclusive queue named after the parser
\* declared and bound to it under the routing key snapshot.
BoundAtBroker ==
    /\ connection
    /\ channels >= 1
    /\ <<"snapshot", "direct">> \in exchanges
    /\ parser_name \in queues
    /\ <<"snapshot", parser_name, "snapshot">> \in bindings
NothingConsumed == delivered = << >> /\ handled = << >> /\ published = << >>

\* The steps of the life cycle of a service loop.
LoopSteps ==
    {<<"Connecting", "Binding">>, <<"Binding", "Bound">>,
     <<"Bound", "Consuming">>, <<"Consuming", "Dispatching">>,
     <<"Dispatching", "Consuming">>, <<"Dispatching", "Publishing">>,
     <<"Publishing", "Consuming">>}
    \cup {<<p, "Stopped">> : p \in {"Connecting", "Binding", "Bound",
                                    "Consuming", "Dispatching", "Publishing"}}

\* C16: the service loop goes from Connecting to Bound to Consuming in that
\* order: no message is consumed or dispatched before the connection is
\* open, the direct exchange snapshot is declared and the exclusive queue
\* named after the parser is declared and bound; a failure to connect
\* moves the loop to Stopped and no message is consumed.
C16_ConnectBindConsume ==
    /\ [](InService =>
            /\ pc \in {"Bound", "Consuming", "Dispatching", "Publishing"}
                  => BoundAtBroker
            /\ pc \in {"Consuming", "Dispatching", "Publishing"} => consumer
            /\ pc \in {"Connecting", "Binding", "Bound"} => NothingConsumed
            /\ ~NothingConsumed => <<"snapshot", "direct">> \in exchanges)
    /\ [][(InService' /\ pc' # pc) =>
            /\ pc # "import" => <<pc, pc'>> \in LoopSteps
            /\ (pc \in {"Connecting", "Binding", "Bound"}
                  /\ pc' = "Stopped") =>
                    stop' = "broker" /\ NothingConsumed']_vars

\* A loop that went through Connecting and Bound is dispatching its first
\* message.
C16_Witness ==
    /\ InService
    /\ pc = "Dispatching"
    /\ BoundAtBroker
    /\ delivered = <<1>>

\* C17: every message handed to Dispatching is followed by the loop being
\* back in Consuming, after the publish of its result if it yields one:
\* unless a broker error stops the loop, it leaves Dispatching only for
\* Publishing or Consuming and leaves Publishing only for Consuming.
C17_DispatchReturnsToConsuming ==
    [][(/\ InService
        /\ Registered
        /\ pc \in {"Dispatching", "Publishing"}
        /\ pc' # pc
        /\ ~(pc' = "Stopped" /\ stop' = "broker")) =>
            \/ pc = "Dispatching" /\ pc' \in {"Publishing", "Consuming"}
            \/ pc = "Publishing" /\ pc' = "Consuming"]_vars

\* C18: in a service loop started through run_parser_wrapper an unknown
\* name cannot occur: the wrapper starts the loop only for a registered
\* name and otherwise lists the parsers and exits without connecting, so
\* in every Dispatching state of such a loop the name is registered and
\* the lookup of run_parser succeeds.
C18_WrapperStartsKnownNamesOnly ==
    (entry = "wrapper" /\ InService) =>
        /\ pc \in {"Connecting", "Binding", "Bound", "Consuming",
                    "Dispatching", "Publishing"} => Registered
        /\ ~Registered =>
              /\ pc = "Stopped"
              /\ stop = "unknown_parser"
              /\ ~connection
              /\ channels = 0
              /\ NothingConsumed

\* The wrapper started a loop for a name that a plug-in registered, and
\* the loop is dispatching a message.
C18_Witness ==
    /\ entry = "wrapper"
    /\ InService
    /\ parser_name = "mood"
    /\ pc = "Dispatching"

LoopRuns == InService /\ pc \in {"Consuming", "Dispatching", "Publishing"}
ResultsThrough ==
    {k \in DOMAIN handled : YieldsResult(handled[k])
                               /\ handled[k].id # cur.id}

\* C20: the loop opens one new channel on its connection for every message
\* that yields a result and closes none: while the loop runs the number
\* of open channels is one, the consume channel, plus the number of
\* results whose publish was attempted; a rejected message opens none.
C20_OneChannelPerResult ==
    /\ [](LoopRuns =>
            /\ channels = 1 + Cardinality(ResultsThrough)
            /\ channels = 1 + Len(published))
    /\ [][/\ channels' >= channels
          /\ (pc = "Dispatching" /\ pc' # pc) => channels' = channels
          /\ (pc = "Publishing" /\ pc' = "Consuming") =>
                channels' = channels + 1
          /\ channels' # channels => pc \in {"Binding", "Publishing"}]_vars

\* After a rejected message and a published result two channels are open.
C20_Witness ==
    /\ LoopRuns
    /\ pc = "Consuming"
    /\ Len(handled) = 2
    /\ Rejected(handled[1])
    /\ Len(published) = 1
    /\ channels = 2

\* A worker holds the queue of its name from its queue_declare until its
\* process ends.
FirstHolds == pc \in {"Bound", "Consuming", "Dispatching", "Publishing"}
SecondHolds == pc2 = "Consuming"

\* The results a worker for name publishes for the messages msgs, in their
\* order.
ResultsOf(name, msgs) ==
    LET yields(m) == LET out == run_parser(PARSERS, name, m.body, "ok")
                     IN  out.exc = "none" /\ out.ret # None
        good == SelectSeq(msgs, yields)
    IN  [i \in DOMAIN good |->
            [body |-> run_parser(PARSERS, name, good[i].body, "ok").ret,
             exchange |-> "processed_data",
             routing_key |-> name,
             msg |-> good[i].id]]
FirstThrough ==
    SelectSeq([k \in DOMAIN handled |->
                  [body |-> handled[k].body, id |-> handled[k].id]],
              LAMBDA m : m.id # cur.id)

\* C19: at most one service loop per name consumes at any time: the queue
\* named after the parser is exclusive, so a worker started for a name
\* whose worker holds the queue fails at its queue declaration and stops
\* without consuming a message, while workers for different names run side
\* by side and the results each one publishes are those of its own
\* messages, whatever the other one does.
C19_OneLoopPerName ==
    /\ [](/\ (FirstHolds /\ SecondHolds) => parser_name # name2
          /\ queues \cap queues2 = {}
          /\ stop2 = "queue_declare" =>
                handled2 = << >> /\ published2 = << >>
          /\ published2 = ResultsOf(name2, handled2)
          /\ published = ResultsOf(parser_name, FirstThrough))
    /\ [][/\ (pc2 = "Binding" /\ pc2' # pc2 /\ FirstHolds
               /\ name2 = parser_name) =>
                 /\ pc2' = "Stopped"
                 /\ stop2' = "queue_declare"
                 /\ handled2' = << >>
          /\ (pc = "Binding" /\ pc' # pc /\ SecondHolds
               /\ name2 = parser_name) =>
                 /\ pc' = "Stopped"
                 /\ stop' = "broker"
                 /\ NothingConsumed'
                 /\ queues' = {}
          /\ (pc2' = pc2 /\ handled2' = handled2) =>
                 published2' = published2
          /\ (pc' = pc /\ cur' = cur) => published' = published]_vars

\* The second worker was refused the queue of the first, which has
\* published a result since.
C19_Witness ==
    /\ pc2 = "Stopped"
    /\ stop2 = "queue_declare"
    /\ name2 = parser_name
    /\ pc = "Consuming"
    /\ Len(published) = 1

====
